---- MODULE Spec2Model ----
(***************************************************************************)
(* Attention-tracking session pipeline of the Virtual Learning Platform:   *)
(* the useAttentionTracking hook (client/src/hooks/useAttentionTracking),  *)
(* the VideoPlayer component that owns the camera and the capture loop     *)
(* (client/src/components/VideoPlayer) and the Classroom page that wires   *)
(* them together.                                                          *)
(*                                                                         *)
(* React closures are modelled explicitly: `isTracking` is the hook's      *)
(* state cell, `rendered` is the value of isTracking captured by the       *)
(* callbacks and effect cleanups of the committed render.  Every await is  *)
(* a separate step, so that network completions, user clicks and renders   *)
(* interleave freely.                                                      *)
(***************************************************************************)
EXTENDS Integers, Sequences, FiniteSets, Bags, TLC

\* ---------------------------------------------------------------- bounds
MaxStarts == 2      \* startTracking invocations
MaxStops  == 2      \* stopTracking invocations that pass the guard
MaxFrames == 2      \* frames dispatched by the capture interval
MaxCams   == 2      \* startWebcam invocations

\* ------------------------------------------------------------ value sets
Absent == -1        \* a numeric field missing from a JSON response

NoError == "null"
ErrUnavailable == "Attention tracking server is not available. Please try again later."
ErrReset == "Failed to reset tracking"
ErrGetResults == "Failed to get tracking results"
ErrSave == "saveTrackingResults request failed"

\* responses of POST /flask/process_frame
Responses ==
  { [eye_movement_count |-> 3, blink_count |-> 5, posture_change_count |-> 1,
     attentiveness_score |-> 72, facial_expression |-> "happy"],
    [eye_movement_count |-> Absent, blink_count |-> Absent,
     posture_change_count |-> Absent, attentiveness_score |-> Absent,
     facial_expression |-> "absent"],
    [eye_movement_count |-> 0, blink_count |-> 2, posture_change_count |-> 0,
     attentiveness_score |-> 0, facial_expression |-> "sad"] }

\* the responses the vision service gives in a run of the session machine
ServiceResponses ==
  { r \in Responses : r.facial_expression \in {"happy", "absent"} }

NoResponse ==
  [eye_movement_count |-> Absent, blink_count |-> Absent,
   posture_change_count |-> Absent, attentiveness_score |-> Absent,
   facial_expression |-> "none"]

\* useState<TrackingMetrics | null>(null)
NoMetrics ==
  [eyeMovements |-> Absent, eyeBlinks |-> Absent, postureChanges |-> Absent,
   attentivenessScore |-> Absent, facialExpression |-> "null"]

\* aggregates returned by GET /flask/get_tracking_results (TrackingData)
Aggregates ==
  { [eyeMovements |-> 12, eyeBlinks |-> 15, postureChanges |-> 2,
     attentivenessScore |-> 81],
    [eyeMovements |-> 0, eyeBlinks |-> 0, postureChanges |-> 0,
     attentivenessScore |-> 0],
    [eyeMovements |-> 7, eyeBlinks |-> 9, postureChanges |-> 4,
     attentivenessScore |-> Absent] }

\* README, Attentiveness Scoring System: expressions 70%, eye movement 15%,
\* blink rate 10%, posture 5%, each component a score from 0 to 100
WeightedBlend(expression, eye, blink, posture) ==
  (70 * expression + 15 * eye + 10 * blink + 5 * posture) \div 100
ComponentScores == {0, 50, 100}
BlendedScores ==
  { WeightedBlend(e, m, b, q) : e \in ComponentScores, m \in ComponentScores,
                                 b \in ComponentScores, q \in ComponentScores }

NoResults ==
  [eyeMovements |-> Absent, eyeBlinks |-> Absent, postureChanges |-> Absent,
   attentivenessScore |-> Absent]

\* the arguments of useAttentionTracking(userId, subjectId) in the Classroom
\* of the model: user 2 (emma_smith) in subject 1 (AI)
userId == 2
subjectId == 1

\* another subject, whose Results page the user may be looking at
OtherSubjectId == 3

\* the JSON body of POST /api/tracking/save
SaveBody(u, s, trackingData) ==
  [userId |-> u, subjectId |-> s, trackingData |-> trackingData]
NoBody == SaveBody(0, 0, NoResults)

\* the detail of the 'tracking-completed' CustomEvent
Detail(u, s) == [userId |-> u, subjectId |-> s]
NoDetail == Detail(0, 0)

\* JavaScript `x ?? d` on a number that may be missing
OrElseNullish(x, d) == IF x = Absent THEN d ELSE x

\* JavaScript `x || d` on a number that may be missing
OrElse(x, d) == IF x = Absent \/ x = 0 THEN d ELSE x

\* JavaScript `s || d` on a string that may be missing
OrElseStr(s, d) == IF s = "absent" \/ s = "" THEN d ELSE s

\* the object handed to setMetrics by processVideoFrame
ToMetrics(r) ==
  [eyeMovements |-> OrElse(r.eye_movement_count, 0),
   eyeBlinks |-> OrElse(r.blink_count, 0),
   postureChanges |-> OrElse(r.posture_change_count, 0),
   attentivenessScore |-> OrElse(r.attentiveness_score, 85),
   facialExpression |-> OrElseStr(r.facial_expression, "neutral")]

\* ------------------------------------------------------------- variables
VARIABLES
  mounted,        \* Classroom (the hook and the VideoPlayer) is mounted
  isTracking,     \* useState(false) of the hook: the state cell
  rendered,       \* isTracking as captured by the closures of the committed render
  metrics,        \* useState<TrackingMetrics | null>(null)
  error,          \* useState<string | null>(null)
  pollScheduled,  \* the setInterval held by serverCheckTimeoutRef is live
  usingWebcam,    \* VideoPlayer useState(false)
  captureOn,      \* the capture setInterval exists
  starts,         \* startTracking calls in flight, by await position
  nStarts,        \* startTracking invocations so far
  stops,          \* the bag of stopTracking calls that passed the guard
  frames,         \* processFrame requests in flight
  nFrames,        \* frames dispatched so far
  cams,           \* startWebcam calls, by id (call i yields MediaStream i)
  live,           \* MediaStreams whose tracks are live
  mediaStreamRef, \* mediaStreamRef.current (0 = null)
  video,          \* the <video> element: srcObject, onloadedmetadata, load/play
  session,        \* number of Idle -> Active transitions so far
  sess,           \* the current Active interval: resets and frames it saw
  frameLog,       \* completions of processFrame
  ev,             \* what the step just taken did and the toast it showed
  resultsPage,    \* the Results page shown after the classroom was left
  \* server/storage.ts, MemStorage
  enrollments,      \* Map<number, Enrollment>
  enrollmentId,     \* the next enrollment id
  trackingResults,  \* Map<number, TrackingResult>
  trackingResultId, \* the next tracking result id
  enrolledLog,      \* the (userId, subjectId) pairs enrollUserInSubject was called with
  savedLog,         \* the records saveTrackingResult was called with, in call order
  now,              \* the server's clock
  status,           \* HTTP status of the last POST /api/tracking/save (0: none yet)
  assigned,         \* per kind of entity, the ids the creating calls returned, in call order
  users,            \* Map<number, User>
  userIdCounter,    \* MemStorage's private userId: the next user id
  subjects,         \* Map<number, Subject>
  subjectIdCounter, \* MemStorage's private subjectId: the next subject id
  \* Classroom page: the enrollment gate
  route,            \* subjectIdNum of the mounted Classroom (0: not mounted)
  isEnrolled,       \* useState(false)
  currentSubject,   \* id of useState<Subject | null>(null) (0: null)
  subjectsLoaded,   \* the ['/api/subjects'] query has data
  checks,           \* isUserEnrolled requests in flight
  confirmed,        \* subjects isUserEnrolled returned true for, since the mount
  navs,             \* route entries so far
  \* Results page: the expression and posture breakdown
  sessionData,      \* the histogram parsed from latestResult.sessionData
  percentages,      \* the percentages the page shows
  \* processVideoFrame: one response and the metrics made from it
  frameResults,     \* the JSON answer of POST /flask/process_frame
  liveMetrics       \* the object handed to setMetrics for it

sessionVars ==
  << mounted, isTracking, rendered, metrics, error, pollScheduled, usingWebcam,
     captureOn, starts, nStarts, stops, frames, nFrames, cams, live,
     mediaStreamRef, video, session, sess, frameLog, ev, resultsPage >>

storageVars ==
  << enrollments, enrollmentId, trackingResults, trackingResultId,
     enrolledLog, savedLog, now, status, assigned >>

registryVars == << users, userIdCounter, subjects, subjectIdCounter >>

classroomVars ==
  << route, isEnrolled, currentSubject, subjectsLoaded, checks, confirmed,
     navs >>

percentVars == << sessionData, percentages >>

snapshotVars == << frameResults, liveMetrics >>

\* the state outside the classroom session
elsewhere ==
  << storageVars, registryVars, classroomVars, percentVars, snapshotVars >>

\* the state outside the storage, the enrollment gate, the breakdown
besideStorage ==
  << sessionVars, registryVars, classroomVars, percentVars, snapshotVars >>
besideClassroom ==
  << sessionVars, storageVars, registryVars, percentVars, snapshotVars >>
besidePercent ==
  << sessionVars, storageVars, registryVars, classroomVars, snapshotVars >>
besideRepository ==
  << sessionVars, classroomVars, percentVars, snapshotVars >>
besideSnapshot ==
  << sessionVars, storageVars, registryVars, classroomVars, percentVars >>

vars == << sessionVars, elsewhere >>

hookState == << isTracking, metrics, error >>
camState == << cams, live, mediaStreamRef, video, usingWebcam >>
history == << session, sess, frameLog >>

Sessions == 1..MaxStarts
CamIds == 1..MaxCams

NoVideo == [srcObject |-> 0, onloadedmetadata |-> FALSE, pc |-> "idle"]
NoFrameLog == [lastSeq |-> 0, maxSeq |-> 0, lastResp |-> NoResponse]

\* the Results page of subject s (0: no Results page is mounted); stale: its
\* cached tracking results have been invalidated
ResultsPage(s, stale) == [subjectId |-> s, stale |-> stale]
NoResultsPage == ResultsPage(0, FALSE)

\* the steps the properties below tell apart; every other step is "other"
TrackedOps == {"startUnavailable", "frameFailed", "frameOk", "camFailed"}

\* for the tracked steps: the value the handler returned (where it returns
\* one) and the toast it showed
Outcome(op, ret, toast) ==
  IF op \in TrackedOps THEN [op |-> op, ret |-> ret, toast |-> toast]
  ELSE [op |-> "other", ret |-> FALSE, toast |-> ""]

Event(op, toast) == Outcome(op, FALSE, toast)

\* a setState call: ignored once the component is unmounted
SetState(new, old) == IF mounted THEN new ELSE old

\* ------------------------------------------------ server: MemStorage
\* a JavaScript Map as its entries in insertion order; set() on a key that
\* is present replaces the value in place
MapSet(m, k, v) ==
  IF \E i \in 1..Len(m) : m[i].key = k
  THEN [i \in 1..Len(m) |->
          IF m[i].key = k THEN [key |-> k, value |-> v] ELSE m[i]]
  ELSE Append(m, [key |-> k, value |-> v])

\* Array.from(map.values())
MapValues(m) == [i \in 1..Len(m) |-> m[i].value]

\* the object literal { ...insert, id }
WithId(insert, id) ==
  [f \in DOMAIN insert \cup {"id"} |-> IF f = "id" THEN id ELSE insert[f]]

InsertEnrollment(u, s) == [userId |-> u, subjectId |-> s]

\* MemStorage.enrollUserInSubject on the pair st = [map, nextId]
enrollUserInSubject(st, insertEnrollment) ==
  LET id == st.nextId
  IN [map |-> MapSet(st.map, id, WithId(insertEnrollment, id)),
      nextId |-> st.nextId + 1,
      ret |-> WithId(insertEnrollment, id)]

\* seedEnrollments()
SeedEnrollments ==
  << InsertEnrollment(1, 1), InsertEnrollment(1, 2), InsertEnrollment(2, 1),
     InsertEnrollment(3, 2), InsertEnrollment(3, 3), InsertEnrollment(4, 4),
     InsertEnrollment(5, 1) >>

RECURSIVE EnrollAll(_, _)
EnrollAll(st, inserts) ==
  IF inserts = << >> THEN st
  ELSE EnrollAll(enrollUserInSubject(st, Head(inserts)), Tail(inserts))

\* the enrollments after `new MemStorage()`
Seeded == EnrollAll([map |-> << >>, nextId |-> 1], SeedEnrollments)

InsertUser(username, email, password) ==
  [username |-> username, email |-> email, password |-> password]

\* a createUser that stores the user and leaves the counter where it was
createUserKeepsCounter(st, insertUser) ==
  LET id == st.nextId
  IN [map |-> MapSet(st.map, id, WithId(insertUser, id)),
      nextId |-> st.nextId,
      ret |-> WithId(insertUser, id)]

\* MemStorage.createUser on the pair st = [map, nextId]
createUser(st, insertUser) ==
  LET id == st.nextId
  IN [map |-> MapSet(st.map, id, WithId(insertUser, id)),
      nextId |-> st.nextId + 1,
      ret |-> WithId(insertUser, id)]

\* seedUsers()
demoUsers ==
  << InsertUser("john_doe", "john@vle.edu", "student123"),
     InsertUser("emma_smith", "emma@vle.edu", "student456"),
     InsertUser("mike_jones", "mike@vle.edu", "student789"),
     InsertUser("sara_wilson", "sara@vle.edu", "student012"),
     InsertUser("alex_brown", "alex@vle.edu", "student345") >>

RECURSIVE CreateUsers(_, _)
CreateUsers(st, inserts) ==
  IF inserts = << >> THEN st
  ELSE CreateUsers(createUser(st, Head(inserts)), Tail(inserts))

SeededUsers == CreateUsers([map |-> << >>, nextId |-> 1], demoUsers)

InsertSubject(name, code, facultyName, schedule) ==
  [name |-> name, code |-> code, facultyName |-> facultyName,
   schedule |-> schedule]

\* MemStorage.createSubject on the pair st = [map, nextId]
createSubject(st, insertSubject) ==
  LET id == st.nextId
  IN [map |-> MapSet(st.map, id, WithId(insertSubject, id)),
      nextId |-> st.nextId + 1,
      ret |-> WithId(insertSubject, id)]

\* seedSubjects()
demoSubjects ==
  << InsertSubject("Artificial Intelligence", "AI", "Dr. Alan Turing",
                   "Mon, Wed, Fri - 14:30-16:00"),
     InsertSubject("Database Management Systems", "DBMS", "Dr. Edgar Codd",
                   "Tue, Thu - 10:00-11:30"),
     InsertSubject("Operating Systems", "OS", "Prof. Linus Torvalds",
                   "Mon, Wed - 09:00-10:30"),
     InsertSubject("Computer Networks", "CN", "Dr. Vint Cerf",
                   "Tue, Thu - 13:00-14:30") >>

RECURSIVE CreateSubjects(_, _)
CreateSubjects(st, inserts) ==
  IF inserts = << >> THEN st
  ELSE CreateSubjects(createSubject(st, Head(inserts)), Tail(inserts))

SeededSubjects == CreateSubjects([map |-> << >>, nextId |-> 1], demoSubjects)

\* the ids of the entities of a Map, in insertion order
Ids(m) == [i \in 1..Len(m) |-> m[i].value.id]

\* the call that created an entity returned id
Assign(kind, id) == [assigned EXCEPT ![kind] = Append(@, id)]

StorageInit ==
  /\ enrollments = Seeded.map
  /\ enrollmentId = Seeded.nextId
  /\ trackingResults = << >>
  /\ trackingResultId = 1
  /\ enrolledLog = { << SeedEnrollments[i].userId, SeedEnrollments[i].subjectId >> :
                       i \in 1..Len(SeedEnrollments) }
  /\ savedLog = << >>
  /\ now = 0
  /\ status = 0
  /\ users = SeededUsers.map
  /\ userIdCounter = SeededUsers.nextId
  /\ subjects = SeededSubjects.map
  /\ subjectIdCounter = SeededSubjects.nextId
  /\ assigned = [users |-> Ids(SeededUsers.map),
                 subjects |-> Ids(SeededSubjects.map),
                 enrollments |-> Ids(Seeded.map),
                 trackingResults |-> << >>]

\* ---------------------------------------------- pages outside a session
\* the keys the Results page reads from a histogram of either kind
Categories ==
  [facial_expressions |-> {"neutral", "focused", "confused", "distracted"},
   posture_states |-> {"upright", "leaning_forward", "slouching", "away"}]
Kinds == DOMAIN Categories

NoSessionData == [kind |-> "none", counts |-> << >>]
NoPercentages == << >>

ClassroomInit ==
  /\ route = 0
  /\ isEnrolled = FALSE
  /\ currentSubject = 0
  /\ subjectsLoaded = FALSE
  /\ checks = {}
  /\ confirmed = {}
  /\ navs = 0

PercentInit ==
  /\ sessionData = NoSessionData
  /\ percentages = NoPercentages

SnapshotInit ==
  /\ frameResults = NoResponse
  /\ liveMetrics = NoMetrics

Init ==
  /\ StorageInit
  /\ ClassroomInit
  /\ PercentInit
  /\ SnapshotInit
  /\ mounted = TRUE
  /\ isTracking = FALSE
  /\ rendered = FALSE
  /\ metrics = NoMetrics
  /\ error = NoError
  /\ pollScheduled = TRUE
  /\ usingWebcam = FALSE
  /\ captureOn = FALSE
  /\ starts = [health |-> 0, reset |-> 0]
  /\ nStarts = 0
  /\ stops = EmptyBag
  /\ frames = {}
  /\ nFrames = 0
  /\ cams = [c \in CamIds |-> "unused"]
  /\ live = {}
  /\ mediaStreamRef = 0
  /\ video = NoVideo
  /\ session = 0
  /\ sess = [resets |-> 0, frames |-> 0]
  /\ frameLog = NoFrameLog
  /\ ev = Event("init", "")
  /\ resultsPage = NoResultsPage

\* ------------------------------------------------- useAttentionTracking
\* a stopTracking call of session sid at await position pc; by is who called
\* it: "click" (the toggle), "camera" (startWebcam's catch), "unmount" (the
\* effect cleanup at unmount) or "cleanup" (the effect cleanup at a render)
StopCall(pc, sid, by, results) ==
  [pc |-> pc, sid |-> sid, by |-> by, results |-> results,
   body |-> NoBody, saved |-> FALSE, detail |-> NoDetail]
StopCalls == BagToSet(stops)
CanStop == BagCardinality(stops) < MaxStops
Spawn(call) == stops (+) SetToBag({call})
Advance(call, next) == (stops (-) SetToBag({call})) (+) SetToBag({next})

\* how many stop sequences of session s are at (or ended at) one of pcs
StopsOf(s, pcs) ==
  BagCardinality([t \in {u \in StopCalls : u.sid = s /\ u.pc \in pcs}
                    |-> CopiesIn(t, stops)])
GetCalls(s) ==
  StopsOf(s, {"get", "getFailed", "save", "saveFailed", "timer", "notified"})
GetFails(s) == StopsOf(s, {"getFailed"})
SaveCalls(s) == StopsOf(s, {"save", "saveFailed", "timer", "notified"})
SaveFails(s) == StopsOf(s, {"saveFailed"})
Saved(s) == StopsOf(s, {"timer", "notified"})
Notified(s) == StopsOf(s, {"notified"})

\* stop requests of session s: calls of stopTracking made for the user, for
\* the camera-failure revert or at teardown
StopRequests(s) ==
  BagCardinality([t \in {u \in StopCalls : u.sid = s /\ u.by # "cleanup"}
                    |-> CopiesIn(t, stops)])

\* stopTracking's guard `if (!isTracking) return`, evaluated on the isTracking
\* captured by the closure that is being called (c), never on the state cell
stopTrackingProceeds(c) == c

\* stopTracking without its setIsTracking(false)
stopTrackingKeeps(cur) == cur

\* the state cell after stopTracking's setIsTracking(false)
stopTrackingSets(cur) == SetState(FALSE, cur)

\* stopTracking up to its first await: setIsTracking(false), then the
\* getTrackingResults request is issued
stopTracking(c, by) ==
  IF stopTrackingProceeds(c)
  THEN /\ CanStop
       /\ isTracking' = stopTrackingSets(isTracking)
       /\ stops' = Spawn(StopCall("get", session, by, NoResults))
  ELSE UNCHANGED << isTracking, stops >>

\* startTracking up to its first await: the health check is issued
startTracking ==
  /\ nStarts < MaxStarts
  /\ nStarts' = nStarts + 1
  /\ starts' = [starts EXCEPT !.health = @ + 1]

\* toggleTracking of the render whose isTracking was c
toggleTracking(c, by) ==
  IF c
  THEN stopTracking(c, by) /\ UNCHANGED << starts, nStarts >>
  ELSE startTracking /\ UNCHANGED << isTracking, stops >>

\* startTracking without the availability test
startTrackingIgnoresHealth(ok) == TRUE

\* startTracking's `if (!isServerAvailable) throw`: whether it goes on to
\* resetTracking after a health check that answered ok
startTrackingResets(ok) == ok

\* the step in which a start's health check answered ok
HealthStep(ok) == IF ok THEN "startHealthOk" ELSE "startUnavailable"

\* startTracking: checkFlaskServer() settled.  The api maps a failed request
\* to false; false throws into the catch block: setError, toast, return false
StartHealthChecked(ok) ==
  /\ starts.health > 0
  /\ IF startTrackingResets(ok)
     THEN /\ starts' = [health |-> starts.health - 1,
                        reset |-> starts.reset + 1]
          /\ error' = error
          /\ ev' = Outcome(HealthStep(ok), TRUE, "")
     ELSE /\ starts' = [starts EXCEPT !.health = @ - 1]
          /\ error' = SetState(ErrUnavailable, error)
          /\ ev' = Outcome(HealthStep(ok), FALSE, "Tracking Error")
  /\ UNCHANGED << mounted, isTracking, rendered, metrics, pollScheduled,
                  captureOn, nStarts, stops, frames, nFrames >>
  /\ UNCHANGED camState
  /\ UNCHANGED history
  /\ UNCHANGED resultsPage
  /\ UNCHANGED elsewhere

\* startTracking: resetTracking() resolved: setIsTracking(true),
\* setError(null), setMetrics(null), toast, return true
StartResetOk ==
  /\ starts.reset > 0
  /\ starts' = [starts EXCEPT !.reset = @ - 1]
  /\ isTracking' = SetState(TRUE, isTracking)
  /\ error' = SetState(NoError, error)
  /\ metrics' = SetState(NoMetrics, metrics)
  /\ session' = IF mounted /\ ~isTracking THEN session + 1 ELSE session
  /\ sess' = IF ~mounted THEN sess
             ELSE IF ~isTracking THEN [resets |-> 1, frames |-> 0]
             ELSE [sess EXCEPT !.resets = @ + 1]
  /\ frameLog' = IF mounted THEN [frameLog EXCEPT !.lastResp = NoResponse]
                 ELSE frameLog
  /\ ev' = Event("startOk", "Tracking Started")
  /\ UNCHANGED << mounted, rendered, pollScheduled, captureOn, nStarts, stops,
                  frames, nFrames >>
  /\ UNCHANGED camState
  /\ UNCHANGED resultsPage
  /\ UNCHANGED elsewhere

\* startTracking: resetTracking() threw
StartResetFailed ==
  /\ starts.reset > 0
  /\ starts' = [starts EXCEPT !.reset = @ - 1]
  /\ error' = SetState(ErrReset, error)
  /\ ev' = Event("startResetFailed", "Tracking Error")
  /\ UNCHANGED << mounted, isTracking, rendered, metrics, pollScheduled,
                  captureOn, nStarts, stops, frames, nFrames >>
  /\ UNCHANGED camState
  /\ UNCHANGED history
  /\ UNCHANGED resultsPage
  /\ UNCHANGED elsewhere

\* a stop that persists the counts of the live metrics snapshot
savedDataFromMetrics(results, snapshot) ==
  [results EXCEPT !.eyeMovements = snapshot.eyeMovements,
                  !.eyeBlinks = snapshot.eyeBlinks,
                  !.postureChanges = snapshot.postureChanges]

\* the trackingData argument of saveTrackingResults(userId, subjectId,
\* results): the aggregate as returned, not the metrics state
savedData(results, snapshot) == results

\* a stop call once its save request is over: the ids it was sent for stay
\* on record, the data is dropped
SaveOver(t, pc, ok) ==
  [t EXCEPT !.pc = pc, !.results = NoResults, !.saved = ok,
            !.body = SaveBody(t.body.userId, t.body.subjectId, NoResults)]

\* stopTracking: getTrackingResults() resolved with aggregate a; the
\* saveTrackingResults request is issued in the same continuation
GetResultsOk(t, a) ==
  /\ t.pc = "get"
  /\ stops' = Advance(t, [t EXCEPT !.pc = "save", !.results = a,
                                   !.body = SaveBody(userId, subjectId,
                                                     savedData(a, metrics))])
  /\ ev' = Event("getResultsOk", "")
  /\ UNCHANGED << mounted, rendered, pollScheduled, captureOn, starts, nStarts,
                  frames, nFrames >>
  /\ UNCHANGED hookState
  /\ UNCHANGED camState
  /\ UNCHANGED history
  /\ UNCHANGED resultsPage
  /\ UNCHANGED elsewhere

\* stopTracking: getTrackingResults() threw: setError, toast
GetResultsFailed(t) ==
  /\ t.pc = "get"
  /\ stops' = Advance(t, StopCall("getFailed", t.sid, t.by, NoResults))
  /\ error' = SetState(ErrGetResults, error)
  /\ ev' = Event("getResultsFailed", "Tracking Error")
  /\ UNCHANGED << mounted, isTracking, rendered, metrics, pollScheduled,
                  captureOn, starts, nStarts, frames, nFrames >>
  /\ UNCHANGED camState
  /\ UNCHANGED history
  /\ UNCHANGED resultsPage
  /\ UNCHANGED elsewhere

\* stopTracking: saveTrackingResults() resolved; the 500 ms timer that
\* dispatches 'tracking-completed' is armed, toast
SaveOk(t) ==
  /\ t.pc = "save"
  /\ stops' = Advance(t, SaveOver(t, "timer", TRUE))
  /\ ev' = Event("saveOk", "Tracking Stopped")
  /\ UNCHANGED << mounted, rendered, pollScheduled, captureOn, starts, nStarts,
                  frames, nFrames >>
  /\ UNCHANGED hookState
  /\ UNCHANGED camState
  /\ UNCHANGED history
  /\ UNCHANGED resultsPage
  /\ UNCHANGED elsewhere

\* a stop that arms the notification timer in a `finally`
saveFailureArmsTimer(t) == "timer"

\* where a stop call is after saveTrackingResults() threw: the throw skips
\* the setTimeout and the success toast and lands in the catch block
saveFailurePc(t) == "saveFailed"

\* stopTracking: saveTrackingResults() threw: setError, toast
SaveFailed(t) ==
  /\ t.pc = "save"
  /\ stops' = Advance(t, SaveOver(t, saveFailurePc(t), FALSE))
  /\ error' = SetState(ErrSave, error)
  /\ ev' = Event("saveFailed", "Tracking Error")
  /\ UNCHANGED << mounted, isTracking, rendered, metrics, pollScheduled,
                  captureOn, starts, nStarts, frames, nFrames >>
  /\ UNCHANGED camState
  /\ UNCHANGED history
  /\ UNCHANGED resultsPage
  /\ UNCHANGED elsewhere

\* Results.handleTrackingCompleted of the page of (user, subjectIdNum):
\* whether it calls queryClient.invalidateQueries
handleTrackingCompleted(detail, user, subjectIdNum) ==
  detail # NoDetail /\ detail.userId = user /\ detail.subjectId = subjectIdNum

\* window.dispatchEvent reaches the listener of the mounted Results page
dispatchEvent(detail) ==
  IF /\ resultsPage.subjectId # 0
     /\ handleTrackingCompleted(detail, userId, resultsPage.subjectId)
  THEN ResultsPage(resultsPage.subjectId, TRUE)
  ELSE resultsPage

\* the 500 ms timer fires: window.dispatchEvent('tracking-completed')
NotifyFires(t) ==
  /\ t.pc = "timer"
  /\ stops' = Advance(t, [t EXCEPT !.pc = "notified",
                                   !.detail = Detail(userId, subjectId)])
  /\ resultsPage' = dispatchEvent(Detail(userId, subjectId))
  /\ ev' = Event("trackingCompleted", "")
  /\ UNCHANGED << mounted, rendered, pollScheduled, captureOn, starts, nStarts,
                  frames, nFrames >>
  /\ UNCHANGED hookState
  /\ UNCHANGED camState
  /\ UNCHANGED history
  /\ UNCHANGED elsewhere

\* processVideoFrame's guard `if (!isTracking || !frameData) return`, on the
\* isTracking captured by the closure (c)
processVideoFrameSends(c, nonEmpty) == c /\ nonEmpty

\* a hook that drops a response older than one it has already applied
AppliesNewestSent(f) == f.seq >= frameLog.maxSeq

\* whether a resolved processFrame response is handed to setMetrics: the code
\* applies every response, in completion order
AppliesResponse(f) == TRUE

\* processVideoFrame: processFrame() resolved with r
FrameOk(f, r) ==
  /\ f \in frames
  /\ frames' = frames \ {f}
  /\ metrics' = IF AppliesResponse(f) THEN SetState(ToMetrics(r), metrics)
                ELSE metrics
  /\ frameLog' = IF mounted
                 THEN [lastSeq |-> f.seq,
                       maxSeq |-> IF f.seq > frameLog.maxSeq THEN f.seq
                                  ELSE frameLog.maxSeq,
                       lastResp |-> r]
                 ELSE frameLog
  /\ ev' = Event("frameOk", "")
  /\ UNCHANGED << mounted, isTracking, rendered, error, pollScheduled,
                  captureOn, starts, nStarts, stops, nFrames, session, sess >>
  /\ UNCHANGED camState
  /\ UNCHANGED resultsPage
  /\ UNCHANGED elsewhere

\* a catch block that reports the failure like those of start and stop
frameCatchSetsError(cur) == SetState("Frame processing error", cur)

\* what processVideoFrame's catch block leaves in error: it only logs
frameCatchError(cur) == cur

\* processVideoFrame: processFrame() threw
FrameFailed(f) ==
  /\ f \in frames
  /\ frames' = frames \ {f}
  /\ error' = frameCatchError(error)
  /\ ev' = Event("frameFailed", "")
  /\ UNCHANGED << mounted, isTracking, rendered, metrics, pollScheduled,
                  captureOn, starts, nStarts, stops, nFrames >>
  /\ UNCHANGED camState
  /\ UNCHANGED history
  /\ UNCHANGED resultsPage
  /\ UNCHANGED elsewhere

\* the 10 s health poll fires: checkFlaskServer() only feeds the
\* flaskServerAvailable banner, which no handler reads
PollCheck ==
  /\ mounted /\ pollScheduled
  /\ ev' = Event("poll", "")
  /\ UNCHANGED << mounted, rendered, pollScheduled, captureOn, starts, nStarts,
                  stops, frames, nFrames >>
  /\ UNCHANGED hookState
  /\ UNCHANGED camState
  /\ UNCHANGED history
  /\ UNCHANGED resultsPage
  /\ UNCHANGED elsewhere

\* ------------------------------------------------------------ VideoPlayer
FreeCams == {c \in CamIds : cams[c] = "unused"}
NextCamId == CHOOSE c \in FreeCams : \A d \in FreeCams : c <= d

\* isTracking as captured by the onToggleTracking that startWebcam calls in
\* its catch block: startWebcam only runs from the effect of a render with
\* isTracking true, and it closes over that render's props
startWebcamClosure == TRUE

\* isTracking as captured by the onVideoFrame that the capture interval
\* calls: the interval is only created by a render with isTracking true
captureClosure == TRUE

\* startWebcam up to its first await: enumerateDevices() is pending
startWebcam ==
  /\ FreeCams # {}
  /\ cams' = [cams EXCEPT ![NextCamId] = "enumerate"]
  /\ UNCHANGED << live, mediaStreamRef, video, usingWebcam >>

\* stopWebcam: stop the tracks of the held stream, put the lecture back
stopWebcam ==
  /\ live' = live \ {mediaStreamRef}
  /\ mediaStreamRef' = 0
  /\ video' = NoVideo
  /\ usingWebcam' = FALSE
  /\ UNCHANGED cams

\* the branch `else if (!isTracking && usingWebcam)` of the webcam effect
webcamEffectStops(trk, using) == ~trk /\ using

\* the effect `useEffect(..., [isTracking])` of a render with isTracking = trk
webcamEffect(trk) ==
  IF trk /\ ~usingWebcam THEN startWebcam
  ELSE IF webcamEffectStops(trk, usingWebcam) THEN stopWebcam
  ELSE UNCHANGED camState

\* startWebcam's catch block: toast, then onToggleTracking()
startWebcamCatch ==
  /\ toggleTracking(startWebcamClosure, "camera")
  /\ ev' = Event("camFailed", "Camera Access Failed")

\* enumerateDevices() resolved with a video input: getUserMedia is
\* requested and raced against the 10 s timeout
CamEnumerated(c) ==
  /\ cams[c] = "enumerate"
  /\ cams' = [cams EXCEPT ![c] = "gum"]
  /\ ev' = Event("camEnumerated", "")
  /\ UNCHANGED << mounted, rendered, pollScheduled, captureOn, starts, nStarts,
                  stops, frames, nFrames, live, mediaStreamRef, video,
                  usingWebcam >>
  /\ UNCHANGED hookState
  /\ UNCHANGED history
  /\ UNCHANGED resultsPage
  /\ UNCHANGED elsewhere

\* enumerateDevices() failed or listed no video input
CamNoDevice(c) ==
  /\ cams[c] = "enumerate"
  /\ cams' = [cams EXCEPT ![c] = "failed"]
  /\ startWebcamCatch
  /\ UNCHANGED << mounted, rendered, metrics, error, pollScheduled, captureOn,
                  frames, nFrames, live, mediaStreamRef, video, usingWebcam >>
  /\ UNCHANGED history
  /\ UNCHANGED resultsPage
  /\ UNCHANGED elsewhere

\* getUserMedia() won the race: the stream is held and shown, toast
CamGranted(c) ==
  /\ cams[c] = "gum"
  /\ cams' = [cams EXCEPT ![c] = "granted"]
  /\ live' = live \cup {c}
  /\ mediaStreamRef' = c
  /\ video' = IF mounted
              THEN [srcObject |-> c, onloadedmetadata |-> TRUE,
                    pc |-> "metadata"]
              ELSE video
  /\ ev' = Event("camGranted", "Camera Active")
  /\ UNCHANGED << mounted, rendered, pollScheduled, captureOn, starts, nStarts,
                  stops, frames, nFrames, usingWebcam >>
  /\ UNCHANGED hookState
  /\ UNCHANGED history
  /\ UNCHANGED resultsPage
  /\ UNCHANGED elsewhere

\* getUserMedia() rejected (NotAllowedError, NotFoundError, NotReadableError)
CamDenied(c) ==
  /\ cams[c] = "gum"
  /\ cams' = [cams EXCEPT ![c] = "failed"]
  /\ startWebcamCatch
  /\ UNCHANGED << mounted, rendered, metrics, error, pollScheduled, captureOn,
                  frames, nFrames, live, mediaStreamRef, video, usingWebcam >>
  /\ UNCHANGED history
  /\ UNCHANGED resultsPage
  /\ UNCHANGED elsewhere

\* the 10 s timeout won the race; getUserMedia() stays pending
CamTimeout(c) ==
  /\ cams[c] = "gum"
  /\ cams' = [cams EXCEPT ![c] = "late"]
  /\ startWebcamCatch
  /\ UNCHANGED << mounted, rendered, metrics, error, pollScheduled, captureOn,
                  frames, nFrames, live, mediaStreamRef, video, usingWebcam >>
  /\ UNCHANGED history
  /\ UNCHANGED resultsPage
  /\ UNCHANGED elsewhere

\* getUserMedia() settles after it lost the race: nobody awaits it any more
CamLate(c, granted) ==
  /\ cams[c] = "late"
  /\ cams' = [cams EXCEPT ![c] = "failed"]
  /\ live' = IF granted THEN live \cup {c} ELSE live
  /\ ev' = Event("camLate", "")
  /\ UNCHANGED << mounted, rendered, pollScheduled, captureOn, starts, nStarts,
                  stops, frames, nFrames, mediaStreamRef, video, usingWebcam >>
  /\ UNCHANGED hookState
  /\ UNCHANGED history
  /\ UNCHANGED resultsPage
  /\ UNCHANGED elsewhere

\* the video element fires loadedmetadata: the handler calls play()
VideoMetadata ==
  /\ video.pc = "metadata"
  /\ video' = [video EXCEPT !.pc = IF video.onloadedmetadata THEN "play"
                                   ELSE "idle"]
  /\ ev' = Event("loadedmetadata", "")
  /\ UNCHANGED << mounted, rendered, pollScheduled, captureOn, starts, nStarts,
                  stops, frames, nFrames, cams, live, mediaStreamRef,
                  usingWebcam >>
  /\ UNCHANGED hookState
  /\ UNCHANGED history
  /\ UNCHANGED resultsPage
  /\ UNCHANGED elsewhere

\* play() settles: setUsingWebcam(true) on success, a log on failure
PlaySettled(ok) ==
  /\ video.pc = "play"
  /\ video' = [video EXCEPT !.pc = "idle"]
  /\ usingWebcam' = IF ok THEN SetState(TRUE, usingWebcam) ELSE usingWebcam
  /\ ev' = Event("play", "")
  /\ UNCHANGED << mounted, rendered, pollScheduled, captureOn, starts, nStarts,
                  stops, frames, nFrames, cams, live, mediaStreamRef >>
  /\ UNCHANGED hookState
  /\ UNCHANGED history
  /\ UNCHANGED resultsPage
  /\ UNCHANGED elsewhere

\* a tick that draws the video whatever its dimensions
captureTickIgnoresDimensions(hasDims) == TRUE

\* the tick's `if (video.videoWidth === 0 || video.videoHeight === 0) return`:
\* whether the tick goes on to draw the frame and call onVideoFrame
captureTickDispatches(hasDims) == hasDims

\* the capture interval ticks; hasDims: videoWidth and videoHeight are non-zero
CaptureTick(hasDims) ==
  /\ mounted /\ captureOn
  /\ nFrames < MaxFrames
  /\ IF captureTickDispatches(hasDims)
        /\ processVideoFrameSends(captureClosure, TRUE)
     THEN /\ nFrames' = nFrames + 1
          /\ frames' = frames \cup {[seq |-> nFrames + 1, sid |-> session,
                                     dims |-> hasDims]}
          /\ sess' = [sess EXCEPT !.frames = @ + 1]
          /\ ev' = Event("frameSent", "")
     ELSE /\ UNCHANGED << nFrames, frames, sess >>
          /\ ev' = Event("frameSkipped", "")
  /\ UNCHANGED << mounted, rendered, pollScheduled, captureOn, starts, nStarts,
                  stops, session, frameLog >>
  /\ UNCHANGED hookState
  /\ UNCHANGED camState
  /\ UNCHANGED resultsPage
  /\ UNCHANGED elsewhere

\* -------------------------------------------------- renders and the user
\* React commits a render with a changed isTracking: the cleanup of the
\* hook's [isTracking, stopTracking] effect runs with the previous render's
\* closure (and clears the poll interval), then the VideoPlayer effects run
\* with the new value
Render ==
  /\ mounted
  /\ rendered # isTracking
  /\ rendered' = isTracking
  /\ stopTracking(rendered, "cleanup")
  /\ pollScheduled' = FALSE
  /\ webcamEffect(isTracking)
  /\ captureOn' = isTracking
  /\ ev' = Event("render", "")
  /\ UNCHANGED << mounted, metrics, error, starts, nStarts, frames, nFrames >>
  /\ UNCHANGED history
  /\ UNCHANGED resultsPage
  /\ UNCHANGED elsewhere

\* the Start/Stop Tracking button of the VideoPlayer: onClick={onToggleTracking}
ClickToggle ==
  /\ mounted
  /\ toggleTracking(rendered, "click")
  /\ ev' = Event("click", "")
  /\ UNCHANGED << mounted, rendered, metrics, error, pollScheduled, captureOn,
                  frames, nFrames >>
  /\ UNCHANGED camState
  /\ UNCHANGED history
  /\ UNCHANGED resultsPage
  /\ UNCHANGED elsewhere

\* Classroom.handleTrackAttention: `if (!isTracking) toggleTracking()`; the
\* 500 ms timer it arms navigates away, which is LeavePage
handleTrackAttention ==
  /\ mounted
  /\ ~rendered
  /\ toggleTracking(rendered, "click")
  /\ ev' = Event("trackAttention", "")
  /\ UNCHANGED << mounted, rendered, metrics, error, pollScheduled, captureOn,
                  frames, nFrames >>
  /\ UNCHANGED camState
  /\ UNCHANGED history
  /\ UNCHANGED resultsPage
  /\ UNCHANGED elsewhere

\* where setLocation may lead: the dashboard (0), the Results page of the
\* classroom's subject, or (by way of the dashboard) that of another subject
Destinations == {0, subjectId, OtherSubjectId}

\* setLocation leaves the classroom (handleBackToDashboard, handleViewResults,
\* the timer of handleTrackAttention): Classroom unmounts and every effect
\* cleanup runs.  The state cells of the unmounted components are gone.
LeavePage(dest) ==
  /\ mounted
  /\ mounted' = FALSE
  /\ resultsPage' = ResultsPage(dest, FALSE)
  /\ IF stopTrackingProceeds(rendered)
     THEN /\ CanStop
          /\ stops' = Spawn(StopCall("get", session, "unmount", NoResults))
     ELSE stops' = stops
  /\ pollScheduled' = FALSE
  /\ captureOn' = FALSE
  /\ live' = live \ {mediaStreamRef}
  /\ mediaStreamRef' = 0
  /\ video' = NoVideo
  /\ isTracking' = FALSE
  /\ rendered' = FALSE
  /\ metrics' = NoMetrics
  /\ error' = NoError
  /\ usingWebcam' = FALSE
  /\ frameLog' = NoFrameLog
  /\ ev' = Event("leave", "")
  /\ UNCHANGED << starts, nStarts, frames, nFrames, cams, session, sess >>
  /\ UNCHANGED elsewhere

Next ==
  \/ ClickToggle
  \/ handleTrackAttention
  \/ Render
  \/ \E dest \in Destinations : LeavePage(dest)
  \/ \E ok \in BOOLEAN : StartHealthChecked(ok)
  \/ StartResetOk
  \/ StartResetFailed
  \/ \E t \in StopCalls : \E a \in Aggregates : GetResultsOk(t, a)
  \/ \E t \in StopCalls : GetResultsFailed(t)
  \/ \E t \in StopCalls : SaveOk(t)
  \/ \E t \in StopCalls : SaveFailed(t)
  \/ \E t \in StopCalls : NotifyFires(t)
  \/ \E hasDims \in BOOLEAN : CaptureTick(hasDims)
  \/ \E f \in frames : \E r \in ServiceResponses : FrameOk(f, r)
  \/ \E f \in frames : FrameFailed(f)
  \/ PollCheck
  \/ \E c \in CamIds : CamEnumerated(c)
  \/ \E c \in CamIds : CamNoDevice(c)
  \/ \E c \in CamIds : CamGranted(c)
  \/ \E c \in CamIds : CamDenied(c)
  \/ \E c \in CamIds : CamTimeout(c)
  \/ \E c \in CamIds : \E granted \in BOOLEAN : CamLate(c, granted)
  \/ VideoMetadata
  \/ \E ok \in BOOLEAN : PlaySettled(ok)

Spec == Init /\ [][Next]_vars

\* the life cycle of sessions: every step that starts, stops or tears down
\* a session or moves the camera.  The frame traffic and the health poll
\* are left out: they write metrics, error, frames and frameLog, which no
\* step of a stop sequence reads.
LifecycleNext ==
  \/ ClickToggle
  \/ handleTrackAttention
  \/ Render
  \/ \E dest \in Destinations : LeavePage(dest)
  \/ \E ok \in BOOLEAN : StartHealthChecked(ok)
  \/ StartResetOk
  \/ StartResetFailed
  \/ \E t \in StopCalls : \E a \in Aggregates : GetResultsOk(t, a)
  \/ \E t \in StopCalls : GetResultsFailed(t)
  \/ \E t \in StopCalls : SaveOk(t)
  \/ \E t \in StopCalls : SaveFailed(t)
  \/ \E t \in StopCalls : NotifyFires(t)
  \/ \E c \in CamIds : CamEnumerated(c)
  \/ \E c \in CamIds : CamNoDevice(c)
  \/ \E c \in CamIds : CamGranted(c)
  \/ \E c \in CamIds : CamDenied(c)
  \/ \E c \in CamIds : CamTimeout(c)
  \/ \E c \in CamIds : \E granted \in BOOLEAN : CamLate(c, granted)
  \/ VideoMetadata
  \/ \E ok \in BOOLEAN : PlaySettled(ok)

\* a timer armed with setTimeout fires: nothing in the code clears it
FairSpec ==
  /\ Init
  /\ [][LifecycleNext]_vars
  /\ WF_vars(\E t \in StopCalls : NotifyFires(t))

\* ------------------------------------------------ server: storage calls
MaxEnrolls == 2     \* enrollUserInSubject calls after the seeding
MaxSaves == 3       \* tracking results stored
MaxClock == 1       \* ticks of the server's clock

\* the users and subjects of the requests of a run
StorageUsers == {2, 3}
StorageSubjects == {1, 3}

\* the users and subjects the seeding creates
SeedUsers == 1..5
SeedSubjects == 1..4

\* a predicate written with || instead of &&
matchesEither(e, u, s) == e.userId = u \/ e.subjectId = s

\* the predicate of isUserEnrolledInSubject's some()
matchesEnrollment(e, u, s) == e.userId = u /\ e.subjectId = s

\* MemStorage.isUserEnrolledInSubject
isUserEnrolledInSubject(u, s) ==
  \E i \in 1..Len(enrollments) :
    matchesEnrollment(MapValues(enrollments)[i], u, s)

\* POST /api/users/:userId/subjects/:subjectId/enroll reaches the storage
EnrollUser(u, s) ==
  /\ Len(enrollments) < Len(SeedEnrollments) + MaxEnrolls
  /\ LET st == enrollUserInSubject([map |-> enrollments,
                                    nextId |-> enrollmentId],
                                   InsertEnrollment(u, s))
     IN /\ enrollments' = st.map
        /\ enrollmentId' = st.nextId
        /\ assigned' = Assign("enrollments", st.ret.id)
  /\ enrolledLog' = enrolledLog \cup {<< u, s >>}
  /\ UNCHANGED << trackingResults, trackingResultId, savedLog, now, status >>
  /\ UNCHANGED besideStorage

\* what the vision service may answer to GET /flask/get_tracking_results
\* and the client then posts: the aggregates of a session, a score above
\* 100, a negative count
RequestData ==
  Aggregates \cup
  { [eyeMovements |-> 12, eyeBlinks |-> 15, postureChanges |-> 2,
     attentivenessScore |-> 120],
    [eyeMovements |-> -3, eyeBlinks |-> 15, postureChanges |-> 2,
     attentivenessScore |-> 81] }

RequestBodies ==
  { SaveBody(u, s, d) : u \in StorageUsers, s \in StorageSubjects,
                        d \in RequestData }

\* trackingDataSchema.safeParse succeeds: every field is a number
trackingDataSchema(d) ==
  /\ d.eyeMovements # Absent /\ d.eyeBlinks # Absent
  /\ d.postureChanges # Absent /\ d.attentivenessScore # Absent

\* a route that stores whatever passes the schema
acceptsAnyResult(d) == TRUE

\* the route validates the score and the counts of the record it builds
validatesResult(d) ==
  /\ d.eyeMovements >= 0 /\ d.eyeBlinks >= 0 /\ d.postureChanges >= 0
  /\ d.attentivenessScore >= 0 /\ d.attentivenessScore <= 100

\* the InsertTrackingResult the route builds for a session from start to end
InsertTrackingResult(body, start, end) ==
  [userId |-> body.userId, subjectId |-> body.subjectId,
   sessionDate |-> end, startTime |-> start, endTime |-> end,
   eyeMovementCount |-> body.trackingData.eyeMovements,
   eyeBlinkCount |-> body.trackingData.eyeBlinks,
   postureChangeCount |-> body.trackingData.postureChanges,
   attentivenessScore |-> body.trackingData.attentivenessScore]

\* `null`, where a TrackingResult is expected
NoTrackingResult == WithId(InsertTrackingResult(NoBody, 0, 0), 0)

\* MemStorage.saveTrackingResult on the pair st = [map, nextId]
saveTrackingResult(st, insertResult) ==
  LET id == st.nextId
  IN [map |-> MapSet(st.map, id, WithId(insertResult, id)),
      nextId |-> st.nextId + 1,
      ret |-> WithId(insertResult, id)]

\* POST /api/tracking/save with this body, for a session begun at start
TrackingSave(body, start) ==
  /\ Len(savedLog) < MaxSaves
  /\ start <= now
  /\ IF trackingDataSchema(body.trackingData)
        /\ validatesResult(body.trackingData)
     THEN LET insert == InsertTrackingResult(body, start, now)
              st == saveTrackingResult([map |-> trackingResults,
                                        nextId |-> trackingResultId], insert)
          IN /\ trackingResults' = st.map
             /\ trackingResultId' = st.nextId
             /\ savedLog' = Append(savedLog, WithId(insert, Len(savedLog) + 1))
             /\ assigned' = Assign("trackingResults", st.ret.id)
             /\ status' = 200
     ELSE /\ status' = 400
          /\ UNCHANGED << trackingResults, trackingResultId, savedLog,
                          assigned >>
  /\ UNCHANGED << enrollments, enrollmentId, enrolledLog, now >>
  /\ UNCHANGED besideStorage

\* time passes on the server
Tick ==
  /\ now < MaxClock
  /\ now' = now + 1
  /\ UNCHANGED << enrollments, enrollmentId, trackingResults,
                  trackingResultId, enrolledLog, savedLog, status, assigned >>
  /\ UNCHANGED besideStorage

\* a filter written with || instead of &&
matchesEitherResult(r, u, s) == r.userId = u \/ r.subjectId = s

\* the predicate of getTrackingResultByUserAndSubject's filter()
matchesResult(r, u, s) == r.userId = u /\ r.subjectId = s

\* MemStorage.getTrackingResultByUserAndSubject
getTrackingResultByUserAndSubject(u, s) ==
  SelectSeq(MapValues(trackingResults), LAMBDA r : matchesResult(r, u, s))

\* Results: `trackingResults.length > 0 ? trackingResults[length - 1] : null`
latestResult(results) ==
  IF Len(results) > 0 THEN results[Len(results)] ELSE NoTrackingResult

StorageNext ==
  \/ \E u \in StorageUsers : \E s \in StorageSubjects : EnrollUser(u, s)
  \/ \E body \in RequestBodies : \E start \in 0..MaxClock :
       TrackingSave(body, start)
  \/ Tick

StorageSpec == Init /\ [][StorageNext]_vars

\* ------------------------------------------- server: the whole repository
MaxUsers == 2       \* createUser calls after the seeding
MaxSubjects == 2    \* createSubject calls after the seeding

\* registrations: a username of the seeding with a new email, an email of
\* the seeding with a new username, a user that is new in both
NewUsers ==
  { InsertUser("john_doe", "johnny@vle.edu", "student678"),
    InsertUser("new_user", "john@vle.edu", "student901"),
    InsertUser("new_user", "new@vle.edu", "student234") }

\* a subject with a code of the seeding, a subject with a new code
NewSubjects ==
  { InsertSubject("AI Ethics", "AI", "Dr. Ada Lovelace", "Fri - 10:00-11:30"),
    InsertSubject("Machine Learning", "ML", "Dr. Ada Lovelace",
                  "Fri - 13:00-14:30") }

\* ids a caller passes to the repository: a seeded user and subject, and
\* the user and subject the next createUser and createSubject will create
RepositoryUsers == {2, SeededUsers.nextId}
RepositorySubjects == {1, SeededSubjects.nextId}

\* the records a caller passes to saveTrackingResult
RepositoryResults ==
  { InsertTrackingResult(SaveBody(u, subjectId, d), 0, 0) :
      u \in RepositoryUsers, d \in { a \in Aggregates : trackingDataSchema(a) } }

\* storage.createUser(insertUser)
CreateUser(insertUser) ==
  /\ Len(users) < Len(demoUsers) + MaxUsers
  /\ LET st == createUser([map |-> users, nextId |-> userIdCounter],
                          insertUser)
     IN /\ users' = st.map
        /\ userIdCounter' = st.nextId
        /\ assigned' = Assign("users", st.ret.id)
  /\ UNCHANGED << subjects, subjectIdCounter >>
  /\ UNCHANGED << enrollments, enrollmentId, trackingResults,
                  trackingResultId, enrolledLog, savedLog, now, status >>
  /\ UNCHANGED besideRepository

\* storage.createSubject(insertSubject)
CreateSubject(insertSubject) ==
  /\ Len(subjects) < Len(demoSubjects) + MaxSubjects
  /\ LET st == createSubject([map |-> subjects, nextId |-> subjectIdCounter],
                             insertSubject)
     IN /\ subjects' = st.map
        /\ subjectIdCounter' = st.nextId
        /\ assigned' = Assign("subjects", st.ret.id)
  /\ UNCHANGED << users, userIdCounter >>
  /\ UNCHANGED << enrollments, enrollmentId, trackingResults,
                  trackingResultId, enrolledLog, savedLog, now, status >>
  /\ UNCHANGED besideRepository

\* storage.saveTrackingResult(insertResult)
SaveResult(insertResult) ==
  /\ Len(savedLog) < MaxSaves
  /\ LET st == saveTrackingResult([map |-> trackingResults,
                                   nextId |-> trackingResultId], insertResult)
     IN /\ trackingResults' = st.map
        /\ trackingResultId' = st.nextId
        /\ assigned' = Assign("trackingResults", st.ret.id)
  /\ savedLog' = Append(savedLog, WithId(insertResult, Len(savedLog) + 1))
  /\ UNCHANGED << enrollments, enrollmentId, enrolledLog, now, status >>
  /\ UNCHANGED besideStorage

\* MemStorage.getUser(id) and getSubject(id) find an entity
UserExists(id) == \E i \in 1..Len(users) : users[i].key = id
SubjectExists(id) == \E i \in 1..Len(subjects) : subjects[i].key = id

RepositoryNext ==
  \/ \E insertUser \in NewUsers : CreateUser(insertUser)
  \/ \E insertSubject \in NewSubjects : CreateSubject(insertSubject)
  \/ \E u \in RepositoryUsers : \E s \in RepositorySubjects : EnrollUser(u, s)
  \/ \E insertResult \in RepositoryResults : SaveResult(insertResult)

RepositorySpec == Init /\ [][RepositoryNext]_vars

\* ------------------------------------- processVideoFrame: the conversion
\* what POST /flask/process_frame may answer: every count and the score
\* missing, zero or positive, the expression missing, empty or a label
Counts == {Absent, 0, 3}
Scores == {Absent, 0, 72, 100}
Expressions == {"absent", "", "happy"}

FrameResults ==
  [eye_movement_count : Counts, blink_count : Counts,
   posture_change_count : Counts, attentiveness_score : Scores,
   facial_expression : Expressions]

\* processVideoFrame after `await processFrame(frameData)` resolved with r:
\* setMetrics({ ... })
ProcessedFrame(r) ==
  /\ frameResults' = r
  /\ liveMetrics' = ToMetrics(r)
  /\ UNCHANGED besideSnapshot

SnapshotNext == \E r \in FrameResults : ProcessedFrame(r)

SnapshotSpec == Init /\ [][SnapshotNext]_vars

\* --------------------------------------------- Classroom: enrollment gate
MaxNavs == 3        \* times a classroom route is entered

ClassroomSubjects == {subjectId, OtherSubjectId}

Check(s, isLive) == [sid |-> s, live |-> isLive]

\* the component is unmounted: the requests it issued stay in flight
Orphaned(cs) == { Check(c.sid, FALSE) : c \in cs }

\* the effect `find current subject`, once the subjects query has data
FindSubject(loaded, s, cur) == IF loaded THEN s ELSE cur

\* /classroom/:subjectId is entered from another page: Classroom mounts and
\* its effect calls checkEnrollment()
OpenClassroom(s) ==
  /\ route = 0
  /\ navs < MaxNavs
  /\ navs' = navs + 1
  /\ route' = s
  /\ isEnrolled' = FALSE
  /\ confirmed' = {}
  /\ currentSubject' = FindSubject(subjectsLoaded, s, 0)
  /\ checks' = checks \cup {Check(s, TRUE)}
  /\ UNCHANGED subjectsLoaded
  /\ UNCHANGED besideClassroom

\* the route's subjectId changes while Classroom stays mounted: the effects
\* with subjectIdNum in their dependencies run again, the state is kept
ChangeSubject(s) ==
  /\ route # 0 /\ route # s
  /\ navs < MaxNavs
  /\ navs' = navs + 1
  /\ route' = s
  /\ currentSubject' = FindSubject(subjectsLoaded, s, currentSubject)
  /\ checks' = checks \cup {Check(s, TRUE)}
  /\ UNCHANGED << isEnrolled, confirmed, subjectsLoaded >>
  /\ UNCHANGED besideClassroom

\* GET /api/subjects answered
SubjectsLoaded ==
  /\ ~subjectsLoaded
  /\ subjectsLoaded' = TRUE
  /\ currentSubject' = IF route # 0 THEN route ELSE 0
  /\ UNCHANGED << route, isEnrolled, checks, confirmed, navs >>
  /\ UNCHANGED besideClassroom

\* Classroom unmounts: its state is gone
Unmounted ==
  /\ route' = 0
  /\ isEnrolled' = FALSE
  /\ confirmed' = {}
  /\ currentSubject' = 0

\* isEnrolled after checkEnrollment's catch block: it only logs and toasts
enrolledAfterError(cur) == cur

\* isUserEnrolled() of check c threw
EnrollmentCheckFailed(c) ==
  /\ c \in checks
  /\ checks' = checks \ {c}
  /\ isEnrolled' = IF c.live THEN enrolledAfterError(isEnrolled) ELSE isEnrolled
  /\ UNCHANGED << route, currentSubject, subjectsLoaded, confirmed, navs >>
  /\ UNCHANGED besideClassroom

\* isUserEnrolled() of check c resolved: setIsEnrolled(enrolled); if not
\* enrolled, toast and setLocation("/dashboard")
EnrollmentAnswered(c) ==
  /\ c \in checks
  /\ LET enrolled == isUserEnrolledInSubject(userId, c.sid)
     IN IF enrolled
        THEN /\ checks' = checks \ {c}
             /\ isEnrolled' = IF c.live THEN TRUE ELSE isEnrolled
             /\ confirmed' = IF c.live THEN confirmed \cup {c.sid}
                              ELSE confirmed
             /\ UNCHANGED << route, currentSubject >>
        ELSE /\ checks' = Orphaned(checks \ {c})
             /\ Unmounted
  /\ UNCHANGED << subjectsLoaded, navs >>
  /\ UNCHANGED besideClassroom

\* handleBackToDashboard, handleViewResults
LeaveClassroom ==
  /\ route # 0
  /\ Unmounted
  /\ checks' = Orphaned(checks)
  /\ UNCHANGED << subjectsLoaded, navs >>
  /\ UNCHANGED besideClassroom

\* the render guard `if (!user || !isEnrolled || !currentSubject) return null`
\* lets the page, with the VideoPlayer's tracking controls, through
ControlsShown == route # 0 /\ isEnrolled /\ currentSubject # 0

ClassroomNext ==
  \/ \E s \in ClassroomSubjects : OpenClassroom(s)
  \/ \E s \in ClassroomSubjects : ChangeSubject(s)
  \/ SubjectsLoaded
  \/ \E c \in checks : EnrollmentAnswered(c)
  \/ \E c \in checks : EnrollmentCheckFailed(c)
  \/ LeaveClassroom

ClassroomSpec == Init /\ [][ClassroomNext]_vars

\* ------------------------------------------- Results: percentage breakdown
MaxCount == 2       \* frames counted in a category of a histogram

\* the result of 0 / 0 in JavaScript, and of Math.round of it
NaN == -1

Histograms(kind) == [Categories[kind] -> 0..MaxCount]

RECURSIVE Sum(_, _)
Sum(h, keys) ==
  IF keys = {} THEN 0
  ELSE LET k == CHOOSE x \in keys : TRUE IN h[k] + Sum(h, keys \ {k})

\* Math.round(count / (sum of the four counts) * 100)
Percentage(count, total) ==
  IF total = 0 THEN NaN
  ELSE (200 * count + total) \div (2 * total)

\* JSON.parse(latestResult.sessionData) yields the histogram h of this kind
ParseSessionData(kind, h) ==
  /\ sessionData = NoSessionData
  /\ sessionData' = [kind |-> kind, counts |-> h]
  /\ UNCHANGED percentages
  /\ UNCHANGED besidePercent

\* the Expression & Posture card renders
RenderBreakdown ==
  /\ sessionData # NoSessionData
  /\ percentages = NoPercentages
  /\ percentages' =
       [c \in Categories[sessionData.kind] |->
          Percentage(sessionData.counts[c],
                     Sum(sessionData.counts, Categories[sessionData.kind]))]
  /\ UNCHANGED sessionData
  /\ UNCHANGED besidePercent

PercentNext ==
  \/ \E kind \in Kinds : \E h \in Histograms(kind) : ParseSessionData(kind, h)
  \/ RenderBreakdown

PercentSpec == Init /\ [][PercentNext]_vars

\* ------------------------------------------------------------ properties
\* no await of any start, stop or camera call is outstanding and the video
\* element is at rest
Settled ==
  /\ starts.health = 0 /\ starts.reset = 0
  /\ \A t \in StopCalls : t.pc \in {"getFailed", "saveFailed", "notified"}
  /\ \A c \in CamIds : cams[c] \in {"unused", "granted", "failed"}
  /\ video.pc = "idle"
  /\ frames = {}

\* C1: a session with one stop request (user toggle, camera-failure revert
\* or teardown) invokes saveTrackingResults at most once.
C1_SaveAtMostOncePerSession ==
  \A s \in Sessions : StopRequests(s) <= 1 => SaveCalls(s) <= 1

\* every startWebcam call so far got its stream from getUserMedia in time
CameraGranted == \A c \in CamIds : cams[c] \in {"unused", "granted"}

\* C2: once a stop has set isTracking to false and everything has settled,
\* no MediaStream track is live (here: in runs where the camera was granted).
C2_CameraReleasedAfterStop ==
  (mounted /\ ~isTracking /\ rendered = isTracking /\ Settled
     /\ CameraGranted) => live = {}

\* C3: a start whose health check reports the service unavailable returns
\* false, leaves isTracking alone, issues no resetTracking, opens no camera,
\* starts no stop sequence (so no TrackingResult) and sets error.
C3_UnavailableStartStaysIdle ==
  [][ev'.op = "startUnavailable" =>
       /\ ev'.ret = FALSE
       /\ isTracking' = isTracking
       /\ starts'.reset = starts.reset
       /\ session' = session
       /\ cams' = cams /\ live' = live
       /\ stops' = stops
       /\ (mounted => error' # NoError)]_vars

C3_Witness ==
  /\ ev.op = "startUnavailable" /\ ev.ret = FALSE
  /\ mounted /\ ~isTracking /\ error = ErrUnavailable
  /\ session = 0 /\ live = {} /\ stops = EmptyBag

\* C4: a session with one stop request invokes getTrackingResults once.
C4_GetResultsOncePerSession ==
  \A s \in Sessions : StopRequests(s) <= 1 => GetCalls(s) <= 1

\* C5: while a session is active and has issued a processFrame request, no
\* resetTracking is outstanding and exactly one start has reset for it.
C5_ResetOnceBeforeFrames ==
  (mounted /\ isTracking /\ sess.frames > 0) =>
    (starts.reset = 0 /\ sess.resets = 1)

\* C6: a failed processFrame changes neither isTracking nor metrics nor
\* error, keeps the capture interval and keeps the other requests in flight.
C6_FrameFailureKeepsSession ==
  [][ev'.op = "frameFailed" =>
       /\ isTracking' = isTracking
       /\ metrics' = metrics
       /\ error' = error
       /\ captureOn' = captureOn
       /\ frames' \subseteq frames
       /\ Cardinality(frames') = Cardinality(frames) - 1]_vars

C6_Witness ==
  /\ ev.op = "frameFailed"
  /\ mounted /\ isTracking /\ captureOn
  /\ metrics # NoMetrics /\ error = NoError

\* C7: metrics is the snapshot derived from the processFrame response that
\* completed most recently, whatever the order the frames were sent in.
C7_LastCompletionWins ==
  mounted =>
    metrics = IF frameLog.lastResp = NoResponse THEN NoMetrics
              ELSE ToMetrics(frameLog.lastResp)

C7_Witness ==
  /\ ev.op = "frameOk"
  /\ mounted /\ isTracking
  /\ frameLog.lastSeq < frameLog.maxSeq
  /\ metrics = ToMetrics(frameLog.lastResp)

\* C8: a session (with one stop request) whose getTrackingResults failed
\* never calls saveTrackingResults and emits no notification.
C8_NoSaveAfterGetFailure ==
  \A s \in Sessions :
    (StopRequests(s) <= 1 /\ GetFails(s) > 0) =>
      (SaveCalls(s) = 0 /\ Notified(s) = 0)

\* C9: a session (with one stop request) whose saveTrackingResults failed
\* does not invoke saveTrackingResults again.
C9_NoSecondSaveAfterSaveFailure ==
  \A s \in Sessions :
    (StopRequests(s) <= 1 /\ SaveFails(s) > 0) => SaveCalls(s) = 1

\* C10: after startWebcam's catch block ran, the failure has been reported
\* in a toast and isTracking is false.
C10_CameraFailureRollsBack ==
  (mounted /\ ev.op = "camFailed") =>
    (~isTracking /\ ev.toast = "Camera Access Failed")

\* the camera failed after the user had already clicked Stop and before the
\* next render: two stop calls, none of them from an effect cleanup
C10_Witness ==
  /\ mounted /\ ev.op = "camFailed"
  /\ ~isTracking /\ rendered
  /\ StopRequests(session) = 2

\* C11: a notification timer is armed, and a notification emitted, only by a
\* stop call whose saveTrackingResults succeeded; the notification carries
\* the (userId, subjectId) that call saved for; every armed notification is
\* eventually emitted; and a Results page's cache is invalidated only if the
\* page shows the notification's user and subject.
C11_NotificationAfterSave ==
  /\ [](\A t \in StopCalls : t.pc \in {"timer", "notified"} => t.saved)
  /\ [](\A t \in StopCalls :
         t.pc = "notified" => t.detail = Detail(t.body.userId, t.body.subjectId))
  /\ [](resultsPage.stale =>
         \E t \in StopCalls : /\ t.pc = "notified"
                              /\ t.detail = Detail(userId, resultsPage.subjectId))
  /\ \A s \in Sessions : (StopsOf(s, {"timer"}) > 0) ~> (Notified(s) > 0)

C11_Witness ==
  /\ resultsPage.stale
  /\ \E t \in StopCalls : t.pc = "notified" /\ t.saved
  /\ \E t \in StopCalls : t.pc = "saveFailed"

\* C12: the health poll is scheduled exactly while the hook is mounted.
C12_PollScheduledWhileMounted == pollScheduled = mounted

\* C13: once the VideoPlayer is torn down and no camera request is pending,
\* no MediaStream is live (here: in runs where every request was granted).
C13_NoStreamAfterTeardown == (~mounted /\ CameraGranted) => live = {}

\* C14: the body of the save request is the aggregate getTrackingResults
\* returned to that stop call, with the hook's userId and subjectId.
C14_SavesTheAggregate ==
  \A t \in StopCalls :
    t.pc = "save" =>
      /\ t.results \in Aggregates
      /\ t.body = SaveBody(userId, subjectId, t.results)

\* a save is in flight while the live snapshot shows other counts
C14_Witness ==
  /\ metrics # NoMetrics
  /\ \E t \in StopCalls :
       /\ t.pc = "save"
       /\ t.body.trackingData.eyeBlinks = 15
       /\ metrics.eyeBlinks # t.body.trackingData.eyeBlinks

\* C16: when the aggregate carries no attentivenessScore, the score in the
\* save request is a 70/15/10/5 blend of component scores.
C16_BlendWhenNoScore ==
  \A t \in StopCalls :
    (t.pc = "save" /\ t.results.attentivenessScore = Absent) =>
      t.body.trackingData.attentivenessScore \in BlendedScores

C19_EnrolledIffStored ==
  \A u \in SeedUsers : \A s \in SeedSubjects :
    isUserEnrolledInSubject(u, s) <=> << u, s >> \in enrolledLog

\* (2, 3) was enrolled after the seeding, (3, 1) never
C19_Witness ==
  /\ enrollmentId = Seeded.nextId + MaxEnrolls
  /\ << 2, 3 >> \in enrolledLog /\ << 2, 3 >> \notin
       { << SeedEnrollments[i].userId, SeedEnrollments[i].subjectId >> :
           i \in 1..Len(SeedEnrollments) }
  /\ isUserEnrolledInSubject(2, 3)
  /\ ~isUserEnrolledInSubject(3, 1)

\* the records saved for (u, s), in the order of the calls
SavedFor(u, s) ==
  SelectSeq(savedLog, LAMBDA r : r.userId = u /\ r.subjectId = s)

\* the record saved last for (u, s)
SavedLast(u, s) ==
  IF SavedFor(u, s) = << >> THEN NoTrackingResult
  ELSE CHOOSE r \in { SavedFor(u, s)[i] : i \in 1..Len(SavedFor(u, s)) } :
         \A i \in 1..Len(SavedFor(u, s)) : SavedFor(u, s)[i].id <= r.id

\* C20: getTrackingResultByUserAndSubject(u, s) is the sequence of the
\* records saved for (u, s) in the order they were saved, and latestResult
\* picks the one saved last.
C20_ResultsInSaveOrder ==
  \A u \in StorageUsers : \A s \in StorageSubjects :
    /\ getTrackingResultByUserAndSubject(u, s) = SavedFor(u, s)
    /\ latestResult(getTrackingResultByUserAndSubject(u, s)) = SavedLast(u, s)

\* two sessions of (2, 3) with one of another pair saved between them
C20_Witness ==
  /\ Len(savedLog) = 3
  /\ savedLog[1].userId = 2 /\ savedLog[1].subjectId = 3
  /\ savedLog[2].userId = 2 /\ savedLog[2].subjectId = 1
  /\ savedLog[3].userId = 2 /\ savedLog[3].subjectId = 3
  /\ savedLog[1].attentivenessScore # savedLog[3].attentivenessScore
  /\ Len(getTrackingResultByUserAndSubject(2, 3)) = 2
  /\ latestResult(getTrackingResultByUserAndSubject(2, 3)).id = 3

\* C17: the percentages shown for an all-zero histogram are all 0, and no
\* percentage shown is NaN.
C17_ZeroHistogramShowsZero ==
  percentages # NoPercentages =>
    /\ \A c \in DOMAIN percentages : percentages[c] # NaN
    /\ (\A c \in DOMAIN percentages : sessionData.counts[c] = 0) =>
         (\A c \in DOMAIN percentages : percentages[c] = 0)

\* C18: the classroom, with its tracking controls, is shown only for a
\* subject isUserEnrolled has returned true for, in which the user is
\* enrolled.
C18_ControlsOnlyWhenEnrolled ==
  ControlsShown =>
    /\ route \in confirmed
    /\ isUserEnrolledInSubject(userId, route)

\* strictly increasing sequence of ids
Increasing(ids) == \A i \in 1..Len(ids) : \A j \in 1..Len(ids) : i < j => ids[i] < ids[j]

\* C21: for users, subjects, enrollments and tracking results, the ids the
\* creating calls returned are strictly increasing in call order (so no id
\* is assigned twice), and they are the ids of the stored entities.
C21_IdsIncreaseNeverReused ==
  /\ \A kind \in DOMAIN assigned : Increasing(assigned[kind])
  /\ assigned.users = Ids(users)
  /\ assigned.subjects = Ids(subjects)
  /\ assigned.enrollments = Ids(enrollments)
  /\ assigned.trackingResults = Ids(trackingResults)

\* an entity of each kind was created after the seeding, two of them users
C21_Witness ==
  /\ Len(assigned.users) = Len(demoUsers) + 2
  /\ Len(assigned.subjects) > Len(demoSubjects)
  /\ Len(assigned.enrollments) > Len(SeedEnrollments)
  /\ Len(assigned.trackingResults) > 1

\* C22: at most one Enrollment is stored for a (userId, subjectId) pair.
C22_OneEnrollmentPerPair ==
  \A i \in 1..Len(enrollments) : \A j \in 1..Len(enrollments) :
    matchesEnrollment(MapValues(enrollments)[i],
                      MapValues(enrollments)[j].userId,
                      MapValues(enrollments)[j].subjectId) => i = j

\* C23: every stored Enrollment and every stored TrackingResult names a
\* user and a subject that are stored.
C23_ReferencesExist ==
  /\ \A i \in 1..Len(enrollments) :
       /\ UserExists(MapValues(enrollments)[i].userId)
       /\ SubjectExists(MapValues(enrollments)[i].subjectId)
  /\ \A i \in 1..Len(trackingResults) :
       /\ UserExists(MapValues(trackingResults)[i].userId)
       /\ SubjectExists(MapValues(trackingResults)[i].subjectId)

\* C24: no two stored users have the same username or the same email, and
\* no two stored subjects have the same code.
C24_UniqueNamesAndCodes ==
  /\ \A i \in 1..Len(users) : \A j \in 1..Len(users) :
       (\/ MapValues(users)[i].username = MapValues(users)[j].username
        \/ MapValues(users)[i].email = MapValues(users)[j].email) => i = j
  /\ \A i \in 1..Len(subjects) : \A j \in 1..Len(subjects) :
       MapValues(subjects)[i].code = MapValues(subjects)[j].code => i = j

C26_FramesFromCamera ==
  [][nFrames' > nFrames => (video.srcObject # 0 /\ video.srcObject \in live)]_vars

\* C27: a stream of a camera request that lost the timeout race is not live.
C27_TimeoutLeavesNoStream ==
  \A c \in CamIds : cams[c] \in {"late", "failed"} => c \notin live

\* C28: the revert after a camera failure starts no stop sequence: it asks
\* for no tracking results, saves nothing and emits no notification.
C28_CameraFailureSavesNothing ==
  \A t \in StopCalls : t.by # "camera"

\* C29: a processFrame response changes metrics only if its frame was sent
\* in the session that is running.
C29_MetricsStayInSession ==
  [][\A f \in frames :
       (f \notin frames' /\ metrics' # metrics /\ mounted') =>
         (isTracking /\ f.sid = session)]_vars

\* C30: the metrics made from a frame response have the response's counts
\* (0 for a missing one) and the response's score, or 85 where the score is
\* missing or 0.
C30_MetricsFollowResponse ==
  liveMetrics # NoMetrics =>
    /\ liveMetrics.eyeMovements =
         (IF frameResults.eye_movement_count = Absent THEN 0
          ELSE frameResults.eye_movement_count)
    /\ liveMetrics.eyeBlinks =
         (IF frameResults.blink_count = Absent THEN 0
          ELSE frameResults.blink_count)
    /\ liveMetrics.postureChanges =
         (IF frameResults.posture_change_count = Absent THEN 0
          ELSE frameResults.posture_change_count)
    /\ liveMetrics.attentivenessScore =
         (IF frameResults.attentiveness_score \in {Absent, 0} THEN 85
          ELSE frameResults.attentiveness_score)

\* a response with a score of 0, a missing blink count and a positive
\* eye-movement count
C30_Witness ==
  /\ frameResults.attentiveness_score = 0
  /\ frameResults.blink_count = Absent
  /\ frameResults.eye_movement_count > 0
  /\ liveMetrics.attentivenessScore = 85
  /\ liveMetrics.eyeBlinks = 0
  /\ liveMetrics.eyeMovements = frameResults.eye_movement_count

====
